---- MODULE Spec2Model ----
(***************************************************************************)
(* 1PPS generator for ATtiny25/45/85 (src/main.c).                         *)
(*                                                                         *)
(* The file holds two programs: the down-counter program (lines 1-200)     *)
(* with its build-time #if/#error block, and the up-counter program (lines *)
(* 202-290).  The model has two parts:                                     *)
(*   - the build: the preprocessor block of lines 105-147 evaluated on a   *)
(*     configuration (SpecCfg);                                            *)
(*   - the run: main, pps_init and the timer handler pps_out of either     *)
(*     program, the handler preempting main between any two of its         *)
(*     accesses to shared state (Spec, SpecFree, SpecRestart, SpecLive,    *)
(*     SpecReload), and the two programs run side by side (SpecPair).      *)
(***************************************************************************)
EXTENDS Integers, Sequences, FiniteSets, TLC

VARIABLES
    cfg,        \* the #define'd configuration constants
    variant,    \* "down" (lines 1-200) or "up" (lines 202-290)
    order,      \* order in which the build reads the two bytes of cnt
    bpc,        \* build phase: "config", "checked", or "run"
    diags,      \* diagnostics the preprocessor issued
    pps_ps,     \* what the macro PPS_PS expands to after lines 113-125
    pc,         \* next statement of main
    cnt,        \* volatile uint16_t cnt
    pin,        \* PPS_PORT bit(s) of PPS_PIN
    ddr,        \* PPS_DDR bit(s) of PPS_PIN
    ie,         \* global interrupt enable (SREG I bit)
    isr,        \* handler installed by tmr0a_act
    tmr_ps,     \* prescaler selector programmed by tmr0_init (0: stopped)
    tmr_pr,     \* period programmed by tmr0a_setpr
    rd,         \* byte of cnt main has read so far in this poll
    hist,       \* start-up steps executed so far, in order
    eiCount,    \* number of times ei() ran
    since,      \* pps_out invocations since the last pin-high drive / pps_init
    gap,        \* invocations between the last two pin-high drives (0: none yet)
    rose,       \* the current cycle began with a pin-high drive
    falls,      \* high-to-low transitions of the pin in the current cycle
    fallAt,     \* value of since at the last high-to-low transition (-1: none)
    prevFalls,  \* falls of the previous cycle that began with a drive (-1: none)
    polled,     \* main completed an uninterrupted poll since the last pps_out
    dirty,      \* the poll in progress was interrupted by pps_out
    restarts,   \* number of re-runs of pps_init
    seen,       \* the value of cnt main last compared, and whether pps_out
                \* ran between the two byte reads that assembled it
    peer        \* the up-counter program run beside the down-counter one

vars == <<cfg, variant, order, bpc, diags, pps_ps, pc, cnt, pin, ddr, ie, isr,
          tmr_ps, tmr_pr, rd, hist, eiCount, since, gap, rose, falls, fallAt,
          prevFalls, polled, dirty, restarts, seen, peer>>

buildVars == <<cfg, variant, order>>
runVars == <<pc, cnt, pin, ddr, ie, isr, tmr_ps, tmr_pr, rd, hist, eiCount,
             since, gap, rose, falls, fallAt, prevFalls, polled, dirty, restarts>>

---------------------------------------------------------------------------
(* Widths.                                                                 *)

\* cnt is a uint16_t: arithmetic on it is modulo 2^16.
TwoPow16 == 65536

\* One byte of the 8-bit AVR data bus.
TwoPow8 == 256

---------------------------------------------------------------------------
(* The build: lines 105-147.                                               *)

\* TMR0 clock-select codes of tmr0oc.h (CS02:0 of TCCR0B).
TMR0_PS1x == 1
TMR0_PS8x == 2
TMR0_PS64x == 3
TMR0_PS256x == 4
TMR0_PS1024x == 5
TMR0_PSMASK == 7

\* Value of PPS_PS when no #define of it was processed.
PS_UNDEFINED == 0

DiagElif == "#elif with no expression"
DiagPsTmr == "Invalid PS_TMR settings!"
DiagFactor == "F_OSC not divisable by PS_FUSE, PS_TMR, TMR_TOP, and ISR_CNT"
DiagTmrTop == "TMR_TOP is too large: it must be between 32 - 255"
DiagIsrCnt == "ISR_CNT is too large: it must be between 1 - 65536"
DiagDuty == "PPS_DC is too big: it must be less than ISR_CNT"

\* Line 144 tests PPS_CN, an identifier no #define introduces: in #if
\* arithmetic an identifier that is not a macro evaluates to 0.
PPS_CN == 0

\* Lines 113-120: the #if / #elif groups with a condition.
PsTmrMatched(c) == c.PS_TMR \in {1, 8, 64, 256}

\* Lines 113-125.  A group after one that was taken is skipped without its
\* condition being looked at.  When none of the four conditions holds, the
\* #elif of line 121 is reached: it has no expression, which the
\* preprocessor reports as an error and treats as false, so its group (the
\* 1024x selector) is skipped and the #else group is processed.
PPS_PS_of(c) ==
    IF c.PS_TMR = 1 THEN TMR0_PS1x
    ELSE IF c.PS_TMR = 8 THEN TMR0_PS8x
    ELSE IF c.PS_TMR = 64 THEN TMR0_PS64x
    ELSE IF c.PS_TMR = 256 THEN TMR0_PS256x
    ELSE PS_UNDEFINED

PsTmrDiags(c) ==
    IF PsTmrMatched(c) THEN {} ELSE {DiagElif, DiagPsTmr}

Product(c) == c.PS_FUSE * c.PS_TMR * c.TMR_TOP * c.ISR_CNT

\* Mutation of FactorMismatch: the identity tested by truncating division.
FactorMismatchTrunc(c) ==
    LET d == c.PS_FUSE * c.PS_TMR * c.TMR_TOP
    IN  IF d = 0 THEN c.F_OSC # 0 ELSE c.F_OSC \div d # c.ISR_CNT

\* Line 129.
FactorMismatch(c) == c.F_OSC # Product(c)

\* Mutation of TmrTopTooLarge: the limit off by one.
TmrTopTooLargeOff(c) == c.TMR_TOP > 256

\* Line 134.
TmrTopTooLarge(c) == c.TMR_TOP > 255

\* Line 139.
IsrCntTooLarge(c) == c.ISR_CNT > 65536 - 1

\* Line 144.
DutyTooBig(c) == PPS_CN > c.ISR_CNT

\* Lines 111-147: every diagnostic the block issues (preprocessing goes on
\* after an #error, so each failed check is reported).
Diagnostics(c) ==
    PsTmrDiags(c)
    \cup (IF FactorMismatch(c) THEN {DiagFactor} ELSE {})
    \cup (IF TmrTopTooLarge(c) THEN {DiagTmrTop} ELSE {})
    \cup (IF IsrCntTooLarge(c) THEN {DiagIsrCnt} ELSE {})
    \cup (IF DutyTooBig(c) THEN {DiagDuty} ELSE {})

Config(f, fuse, ps, top, n, dc) ==
    [F_OSC |-> f, PS_FUSE |-> fuse, PS_TMR |-> ps, TMR_TOP |-> top,
     ISR_CNT |-> n, PPS_DC |-> dc]

\* Lines 91-96: the configuration as shipped.
Shipped == Config(19440000, 8, 8, 243, 1250, 10)

\* Lines 55-80: the header's examples, <<frequency, PS_FUSE, PS_TMR, TMR_TOP,
\* ISR_CNT>>.
Examples ==
    << <<24000000, 8, 8, 250, 1500>>,
       <<20000000, 8, 8, 250, 1250>>,
       <<19800000, 8, 8, 125, 2475>>,
       <<19680000, 8, 8, 250, 1250>>,
       <<19440000, 8, 8, 243, 1230>>,
       <<19200000, 8, 8, 250, 1200>>,
       <<18432000, 8, 64, 250, 144>>,
       <<17328000, 8, 8, 250, 1083>>,
       <<16800000, 8, 8, 250, 1050>>,
       <<16384000, 8, 64, 250, 128>>,
       <<16384000, 8, 8, 250, 1024>>,
       <<16200000, 8, 64, 125, 2025>>,
       <<16000000, 8, 64, 250, 125>>,
       <<15600000, 8, 8, 250, 975>>,
       <<15360000, 8, 64, 250, 250>>,
       <<14400000, 8, 8, 250, 900>>,
       <<13824000, 8, 8, 250, 864>>,
       <<12960000, 8, 8, 250, 810>>,
       <<12800000, 8, 64, 250, 100>>,
       <<12288000, 8, 64, 250, 96>>,
       <<12000000, 8, 8, 250, 750>>,
       <<11520000, 8, 64, 250, 90>>,
       <<10368000, 8, 64, 250, 81>>,
       <<10000000, 8, 8, 250, 625>>,
       <<9600000, 8, 64, 250, 75>>,
       <<8000000, 8, 8, 250, 500>> >>

ExampleConfig(i) ==
    Config(Examples[i][1], Examples[i][2], Examples[i][3], Examples[i][4],
           Examples[i][5], Shipped.PPS_DC)

ExampleConfigs == {ExampleConfig(i) : i \in 1..Len(Examples)}

\* The product of c stays below 2^31.  #if arithmetic is done in intmax_t and
\* uintmax_t (64 bits), so for these configurations no #if expression wraps.
Fits(c) ==
    LET b == c.PS_FUSE * c.PS_TMR * c.TMR_TOP
    IN  c.ISR_CNT = 0 \/ b <= 2147483646 \div c.ISR_CNT

\* Values tried for each constant: the shipped one, the documented limits
\* and their neighbours.
FuseValues == {1, 8}
PsTmrValues == {1, 3, 8, 64, 256, 1024}
TmrTopValues == {27, 243, 244, 255, 256}
IsrCntValues == {1, 1250, 11250, 65535, 65536}
DutyValues == {0, 10, 1250, 1251}

Factors ==
    {c \in [PS_FUSE : FuseValues, PS_TMR : PsTmrValues, TMR_TOP : TmrTopValues,
            ISR_CNT : IsrCntValues, PPS_DC : DutyValues] : Fits(c)}

\* For each choice of factors: the frequency they multiply to, one above it,
\* and the shipped frequency; and the shipped factors with a repeat count of
\* 0, for the frequencies 0 and 1.
Candidates ==
    UNION {{Config(f, c.PS_FUSE, c.PS_TMR, c.TMR_TOP, c.ISR_CNT, c.PPS_DC) :
              f \in {Shipped.F_OSC, Product(c), Product(c) + 1}} :
           c \in Factors}
    \cup {[Shipped EXCEPT !.ISR_CNT = 0, !.F_OSC = f] : f \in {0, 1}}

BuildConfigs == Candidates \cup ExampleConfigs

---------------------------------------------------------------------------
(* The run: constants of either program.                                   *)

\* Line 223 (up-counter program): F_CLK / 64 / TMR_TOP, F_CLK being the
\* oscillator frequency divided by 1 (line 220).
PPS_CNT(c) == (c.F_OSC \div 64) \div c.TMR_TOP

\* Line 225.
PPS_DLY(c) == (PPS_CNT(c) * 10) \div 100

\* Number of pps_out invocations per pulse.
RepeatCount == IF variant = "down" THEN cfg.ISR_CNT ELSE PPS_CNT(cfg)

\* Number of invocations the pulse is meant to stay high.
DutyCount == IF variant = "down" THEN cfg.PPS_DC ELSE PPS_DLY(cfg)

\* Lines 150 and 235: the initializer of cnt (stored in 16 bits).
CntInitOf(v, c) == IF v = "down" THEN c.ISR_CNT % TwoPow16 ELSE 0

CntInit == CntInitOf(variant, cfg)

\* Mutation of Threshold: the comparison is one invocation late.
ThresholdLate ==
    IF variant = "down" THEN (cfg.ISR_CNT - cfg.PPS_DC - 1) % TwoPow16
    ELSE PPS_DLY(cfg) + 1

\* Lines 196 and 286: the value main compares cnt with.  In the down-counter
\* program the difference of two int constants is converted to cnt's
\* unsigned 16-bit type.
Threshold ==
    IF variant = "down" THEN (cfg.ISR_CNT - cfg.PPS_DC) % TwoPow16
    ELSE PPS_DLY(cfg)

\* Mutation of pps_out_down: the reload is one short.
pps_out_down_short(c, v) ==
    LET d == (v - 1) % TwoPow16
    IN  IF d = 0 THEN [cnt |-> (c.ISR_CNT - 1) % TwoPow16, set |-> TRUE]
        ELSE [cnt |-> d, set |-> FALSE]

\* Mutation of pps_out_down: cnt is tested before it is decremented.
pps_out_down_late(c, v) ==
    IF v = 0 THEN [cnt |-> c.ISR_CNT % TwoPow16, set |-> TRUE]
    ELSE [cnt |-> (v - 1) % TwoPow16, set |-> FALSE]

\* Lines 153-161: the new cnt and whether the pin is set.
pps_out_down(c, v) ==
    LET d == (v - 1) % TwoPow16
    IN  IF d = 0 THEN [cnt |-> c.ISR_CNT % TwoPow16, set |-> TRUE]
        ELSE [cnt |-> d, set |-> FALSE]

\* Mutation of pps_out_up: the reset leaves cnt at 1.
pps_out_up_skew(c, v) ==
    LET u == (v + 1) % TwoPow16
    IN  IF u = PPS_CNT(c) THEN [cnt |-> 1, set |-> TRUE]
        ELSE [cnt |-> u, set |-> FALSE]

\* Lines 238-246.
pps_out_up(c, v) ==
    LET u == (v + 1) % TwoPow16
    IN  IF u = PPS_CNT(c) THEN [cnt |-> 0, set |-> TRUE]
        ELSE [cnt |-> u, set |-> FALSE]

pps_out_step(c, v) ==
    IF variant = "down" THEN pps_out_down(c, v) ELSE pps_out_up(c, v)

Lo(v) == v % TwoPow8
Hi(v) == v \div TwoPow8

\* Divider selected by a clock-select code (cases of lines 258-268).
Divider(ps) ==
    IF ps = TMR0_PS1x THEN 1
    ELSE IF ps = TMR0_PS8x THEN 8
    ELSE IF ps = TMR0_PS64x THEN 64
    ELSE IF ps = TMR0_PS256x THEN 256
    ELSE IF ps = TMR0_PS1024x THEN 1024
    ELSE 0

\* ps & TMR0_PSMASK (lines 173 and 255); the mask is the low three bits.
Masked(ps) == ps % (TMR0_PSMASK + 1)

\* The period pps_init programs: line 183, and the switch of lines 257-273
\* (which programs nothing for a code it has no case for).
ReloadOf(v, c, ps, old) ==
    IF v = "down" THEN c.TMR_TOP
    ELSE IF Divider(ps) = 0 THEN old
    ELSE (c.F_OSC \div Divider(ps)) \div PPS_CNT(c)

\* since saturates one above the repeat count.
Sat(x) == IF x > RepeatCount + 1 THEN RepeatCount + 1 ELSE x

InLoop == pc \in {"rd1", "rd2", "clr"}

---------------------------------------------------------------------------
(* Configurations the programs are run with.                               *)

\* Largest repeat count of the small configurations.
MaxCnt == 4

\* Number of re-runs of pps_init considered.
MaxRestarts == 1

DownCfg(n, d) == Config(Shipped.PS_FUSE * Shipped.PS_TMR * Shipped.TMR_TOP * n,
                        Shipped.PS_FUSE, Shipped.PS_TMR, Shipped.TMR_TOP, n, d)

\* Lines 220-223 with the frequency scaled to give PPS_CNT = n.
UpCfg(n) == Config(64 * 250 * n, 1, 64, 250, 0, 0)

\* Small repeat counts with every duty count from 0 to the repeat count, two
\* configurations whose repeat count needs both bytes of cnt, and the
\* shipped one.
SmallDownConfigs == {DownCfg(n, d) : n \in 1..MaxCnt, d \in 0..MaxCnt}

DownConfigs ==
    SmallDownConfigs \cup {DownCfg(258, 1), DownCfg(258, 256), Shipped}

\* Small repeat counts, repeat counts whose tenth is not 0, one that needs
\* both bytes of cnt, and the shipped one (19440000 / 64 / 250 = 1215).
SmallUpConfigs == {UpCfg(n) : n \in (1..MaxCnt) \cup {10, 20}}

UpConfigs ==
    SmallUpConfigs \cup {UpCfg(285), Config(19440000, 1, 64, 250, 0, 0)}

---------------------------------------------------------------------------
(* Initial states.                                                         *)

\* main has compared nothing yet.
NotSeen == [val |-> -1, torn |-> FALSE]

\* No second program is run.
NoPeer == [on |-> FALSE]

PowerOn ==
    /\ pc = "mcu_init"
    /\ pin = 0
    /\ ddr = 0
    /\ ie = FALSE
    /\ isr = "none"
    /\ tmr_ps = 0
    /\ tmr_pr = 0
    /\ rd = 0
    /\ hist = << >>
    /\ eiCount = 0
    /\ since = 0
    /\ gap = 0
    /\ rose = FALSE
    /\ falls = 0
    /\ fallAt = -1
    /\ prevFalls = -1
    /\ polled = FALSE
    /\ dirty = FALSE
    /\ restarts = 0
    /\ seen = NotSeen

\* The build is handed a configuration of the down-counter program.
InitCfg ==
    /\ variant = "down"
    /\ cfg \in BuildConfigs
    /\ order = "lo_first"
    /\ bpc = "config"
    /\ diags = {}
    /\ pps_ps = PS_UNDEFINED
    /\ cnt = 0
    /\ peer = NoPeer
    /\ PowerOn

\* A built program starts: the down-counter program passed its #if block,
\* the up-counter program has none (PPS_PS is set by line 221).
InitOf(downs, ups) ==
    /\ variant \in {"down", "up"}
    /\ cfg \in (IF variant = "down" THEN downs ELSE ups)
    /\ variant = "down" => Diagnostics(cfg) = {}
    /\ order \in {"lo_first", "hi_first"}
    /\ bpc = "run"
    /\ diags = {}
    /\ pps_ps = (IF variant = "down" THEN PPS_PS_of(cfg) ELSE TMR0_PS64x)
    /\ cnt = CntInit
    /\ peer = NoPeer
    /\ PowerOn

Init == InitOf(DownConfigs, UpConfigs)

InitSmall == InitOf(SmallDownConfigs, SmallUpConfigs)

---------------------------------------------------------------------------
(* The build step.                                                         *)

\* Lines 111-147 evaluated on cfg.
Validate ==
    /\ bpc = "config"
    /\ diags' = Diagnostics(cfg)
    /\ pps_ps' = PPS_PS_of(cfg)
    /\ bpc' = "checked"
    /\ UNCHANGED <<buildVars, peer, seen, cnt, runVars>>

---------------------------------------------------------------------------
(* main: start-up (lines 189-193, 279-283) and pps_init.                   *)

\* Line 191 / 281.
mcu_init ==
    /\ bpc = "run"
    /\ pc = "mcu_init"
    /\ pc' = (IF variant = "down" THEN "p_cnt" ELSE "p_clr")
    /\ hist' = Append(hist, "mcu_init")
    /\ UNCHANGED <<buildVars, peer, seen,
                   bpc, diags, pps_ps, cnt, pin, ddr, ie, isr, tmr_ps,
                   tmr_pr, rd, eiCount, since, gap, rose, falls, fallAt,
                   prevFalls, polled, dirty, restarts>>

\* Line 166 (down-counter program only).
pps_init_cnt ==
    /\ bpc = "run"
    /\ pc = "p_cnt"
    /\ cnt' = cfg.ISR_CNT % TwoPow16
    /\ pc' = "p_clr"
    /\ hist' = Append(hist, "cnt")
    /\ UNCHANGED <<buildVars, peer, seen,
                   bpc, diags, pps_ps, pin, ddr, ie, isr, tmr_ps,
                   tmr_pr, rd, eiCount, since, gap, rose, falls, fallAt,
                   prevFalls, polled, dirty, restarts>>

\* Line 169 / 251.
pps_init_clr ==
    /\ bpc = "run"
    /\ pc = "p_clr"
    /\ pin' = 0
    /\ pc' = "p_out"
    /\ hist' = Append(hist, "pin_low")
    /\ UNCHANGED <<buildVars, peer, seen,
                   bpc, diags, pps_ps, cnt, ddr, ie, isr, tmr_ps,
                   tmr_pr, rd, eiCount, since, gap, rose, falls, fallAt,
                   prevFalls, polled, dirty, restarts>>

\* Line 170 / 252.
pps_init_out ==
    /\ bpc = "run"
    /\ pc = "p_out"
    /\ ddr' = 1
    /\ pc' = "p_tmr"
    /\ hist' = Append(hist, "pin_output")
    /\ UNCHANGED <<buildVars, peer, seen,
                   bpc, diags, pps_ps, cnt, pin, ie, isr, tmr_ps,
                   tmr_pr, rd, eiCount, since, gap, rose, falls, fallAt,
                   prevFalls, polled, dirty, restarts>>

\* Mutation of pps_init_tmr: the timer set-up also enables interrupts.
pps_init_tmr_sei ==
    /\ bpc = "run"
    /\ pc = "p_tmr"
    /\ tmr_ps' = Masked(pps_ps)
    /\ ie' = TRUE
    /\ pc' = "p_setpr"
    /\ hist' = Append(hist, "prescaler")
    /\ UNCHANGED <<buildVars, peer, seen,
                   bpc, diags, pps_ps, cnt, pin, ddr, isr,
                   tmr_pr, rd, eiCount, since, gap, rose, falls, fallAt,
                   prevFalls, polled, dirty, restarts>>

\* Lines 173-174 / 255-256.
pps_init_tmr ==
    /\ bpc = "run"
    /\ pc = "p_tmr"
    /\ tmr_ps' = Masked(pps_ps)
    /\ pc' = "p_setpr"
    /\ hist' = Append(hist, "prescaler")
    /\ UNCHANGED <<buildVars, peer, seen,
                   bpc, diags, pps_ps, cnt, pin, ddr, ie, isr,
                   tmr_pr, rd, eiCount, since, gap, rose, falls, fallAt,
                   prevFalls, polled, dirty, restarts>>

\* Line 183 / 257-273.
pps_init_setpr ==
    /\ bpc = "run"
    /\ pc = "p_setpr"
    /\ tmr_pr' = ReloadOf(variant, cfg, tmr_ps, tmr_pr)
    /\ pc' = "p_act"
    /\ hist' = Append(hist, "reload")
    /\ UNCHANGED <<buildVars, peer, seen,
                   bpc, diags, pps_ps, cnt, pin, ddr, ie, isr, tmr_ps,
                   rd, eiCount, since, gap, rose, falls, fallAt,
                   prevFalls, polled, dirty, restarts>>

\* Line 184 / 274.
pps_init_act ==
    /\ bpc = "run"
    /\ pc = "p_act"
    /\ isr' = "pps_out"
    /\ pc' = "p_ret"
    /\ hist' = Append(hist, "handler")
    /\ UNCHANGED <<buildVars, peer, seen,
                   bpc, diags, pps_ps, cnt, pin, ddr, ie, tmr_ps,
                   tmr_pr, rd, eiCount, since, gap, rose, falls, fallAt,
                   prevFalls, polled, dirty, restarts>>

\* Line 187 / 277: pps_init returns to main.
pps_init_ret ==
    /\ bpc = "run"
    /\ pc = "p_ret"
    /\ pc' = "ei"
    /\ hist' = Append(hist, "return")
    /\ UNCHANGED <<buildVars, peer, seen,
                   bpc, diags, pps_ps, cnt, pin, ddr, ie, isr, tmr_ps,
                   tmr_pr, rd, eiCount, since, gap, rose, falls, fallAt,
                   prevFalls, polled, dirty, restarts>>

\* Line 193 / 283.
ei ==
    /\ bpc = "run"
    /\ pc = "ei"
    /\ ie' = TRUE
    /\ eiCount' = eiCount + 1
    /\ pc' = "rd1"
    /\ hist' = Append(hist, "ei")
    /\ UNCHANGED <<buildVars, peer, seen,
                   bpc, diags, pps_ps, cnt, pin, ddr, isr, tmr_ps,
                   tmr_pr, rd, since, gap, rose, falls, fallAt,
                   prevFalls, polled, dirty, restarts>>

---------------------------------------------------------------------------
(* The timer handler.                                                      *)

\* Lines 153-161 / 238-246, run to completion: the hardware holds further
\* interrupts off while a handler runs.  It runs when global interrupts are
\* enabled, the timer is clocked and tmr0a_act has installed it.
pps_out ==
    /\ bpc = "run"
    /\ ie
    /\ isr = "pps_out"
    /\ tmr_ps # 0
    /\ LET r == pps_out_step(cfg, cnt)
       IN  /\ cnt' = r.cnt
           /\ pin' = (IF r.set THEN 1 ELSE pin)
           /\ since' = (IF r.set THEN 0 ELSE Sat(since + 1))
           /\ gap' = (IF r.set THEN Sat(since + 1) ELSE gap)
           /\ rose' = (r.set \/ rose)
           /\ falls' = (IF r.set THEN 0 ELSE falls)
           /\ fallAt' = (IF r.set THEN -1 ELSE fallAt)
           /\ prevFalls' = (IF r.set /\ rose THEN falls ELSE prevFalls)
    /\ polled' = FALSE
    /\ dirty' = (pc \in {"rd2", "clr"})
    /\ UNCHANGED <<buildVars, peer, seen,
                   bpc, diags, pps_ps, pc, ddr, ie, isr, tmr_ps,
                   tmr_pr, rd, hist, eiCount, restarts>>

\* The handler under the timing of a configuration whose timer period
\* (PS_TMR * TMR_TOP clocks, 1944 as shipped) is longer than the handler and
\* two passes of the polling loop: main completes at least one
\* uninterrupted poll between two consecutive invocations.
pps_out_timed ==
    /\ InLoop => polled
    /\ pps_out

---------------------------------------------------------------------------
(* main: the polling loop (lines 194-197, 284-287).                        *)

\* The value of cnt assembled from the byte read earlier and the byte read
\* now.
Assembled ==
    IF order = "lo_first" THEN Hi(cnt) * TwoPow8 + rd
    ELSE rd * TwoPow8 + Lo(cnt)

\* Line 196 / 286: the first byte of the 16-bit volatile read of cnt.
loop_read1 ==
    /\ bpc = "run"
    /\ pc = "rd1"
    /\ rd' = (IF order = "lo_first" THEN Lo(cnt) ELSE Hi(cnt))
    /\ pc' = "rd2"
    /\ UNCHANGED <<buildVars, peer, seen,
                   bpc, diags, pps_ps, cnt, pin, ddr, ie, isr, tmr_ps,
                   tmr_pr, hist, eiCount, since, gap, rose, falls, fallAt,
                   prevFalls, polled, dirty, restarts>>

\* Mutation of loop_read2: IO_CLR is reached whatever the comparison gave.
loop_read2_any ==
    /\ bpc = "run"
    /\ pc = "rd2"
    /\ seen' = [val |-> Assembled, torn |-> dirty]
    /\ pc' = "clr"
    /\ UNCHANGED <<buildVars, peer, bpc, diags, pps_ps, cnt, pin, ddr, ie, isr,
                   tmr_ps, tmr_pr, rd, hist, eiCount, since, gap, rose, falls,
                   fallAt, prevFalls, polled, dirty, restarts>>

\* Line 196 / 286: the second byte, and the comparison with the threshold
\* (which touches registers only).
loop_read2 ==
    /\ bpc = "run"
    /\ pc = "rd2"
    /\ seen' = [val |-> Assembled, torn |-> dirty]
    /\ IF Assembled = Threshold
         THEN /\ pc' = "clr"
              /\ UNCHANGED <<polled, dirty>>
         ELSE /\ pc' = "rd1"
              /\ polled' = (polled \/ ~dirty)
              /\ dirty' = FALSE
    /\ UNCHANGED <<buildVars, peer, bpc, diags, pps_ps, cnt, pin, ddr, ie, isr,
                   tmr_ps, tmr_pr, rd, hist, eiCount, since, gap, rose, falls,
                   fallAt, prevFalls, restarts>>

\* Mutation of loop_clr: the pin is left as it is.
loop_clr_skip ==
    /\ bpc = "run"
    /\ pc = "clr"
    /\ pc' = "rd1"
    /\ polled' = (polled \/ ~dirty)
    /\ dirty' = FALSE
    /\ UNCHANGED <<buildVars, peer, seen, bpc, diags, pps_ps, cnt, pin, ddr, ie,
                   isr, tmr_ps, tmr_pr, rd, hist, eiCount, since, gap, rose,
                   falls, fallAt, prevFalls, restarts>>

\* Line 196 / 286: IO_CLR(PPS_PORT, PPS_PIN).
loop_clr ==
    /\ bpc = "run"
    /\ pc = "clr"
    /\ pin' = 0
    /\ falls' = (IF pin = 1 THEN (IF falls >= 2 THEN 2 ELSE falls + 1) ELSE falls)
    /\ fallAt' = (IF pin = 1 THEN since ELSE fallAt)
    /\ pc' = "rd1"
    /\ polled' = (polled \/ ~dirty)
    /\ dirty' = FALSE
    /\ UNCHANGED <<buildVars, peer, seen,
                   bpc, diags, pps_ps, cnt, ddr, ie, isr, tmr_ps,
                   tmr_pr, rd, hist, eiCount, since, gap, rose, prevFalls,
                   restarts>>

---------------------------------------------------------------------------
(* Restart.                                                                *)

\* initialize() followed by enable_interrupts() is run again from the
\* polling loop: interrupts are held off as they are at the first start,
\* memory keeps its contents, and control re-enters pps_init.
Restart ==
    /\ bpc = "run"
    /\ InLoop
    /\ restarts < MaxRestarts
    /\ restarts' = restarts + 1
    /\ ie' = FALSE
    /\ pc' = (IF variant = "down" THEN "p_cnt" ELSE "p_clr")
    /\ hist' = <<"mcu_init">>
    /\ rd' = 0
    /\ since' = 0
    /\ gap' = 0
    /\ rose' = FALSE
    /\ falls' = 0
    /\ fallAt' = -1
    /\ prevFalls' = -1
    /\ polled' = FALSE
    /\ dirty' = FALSE
    /\ seen' = NotSeen
    /\ UNCHANGED <<buildVars, peer, bpc, diags, pps_ps, cnt, pin, ddr, isr,
                   tmr_ps, tmr_pr, eiCount>>

---------------------------------------------------------------------------
(* Specifications.                                                         *)

Main ==
    \/ mcu_init
    \/ pps_init_cnt
    \/ pps_init_clr
    \/ pps_init_out
    \/ pps_init_tmr
    \/ pps_init_setpr
    \/ pps_init_act
    \/ pps_init_ret
    \/ ei
    \/ loop_read1
    \/ loop_read2
    \/ loop_clr

NextCfg == Validate

NextFree == Main \/ pps_out

Next == Main \/ pps_out_timed

NextRestart == Main \/ pps_out_timed \/ Restart

\* The build of a configuration.
SpecCfg == InitCfg /\ [][NextCfg]_vars

\* The program under the timing of pps_out_timed.
Spec == Init /\ [][Next]_vars

\* The small configurations, the handler free to run at any point and any
\* number of times between two steps of main.
SpecFree == InitSmall /\ [][NextFree]_vars

\* The small configurations, with restarts.
SpecRestart == InitSmall /\ [][NextRestart]_vars

---------------------------------------------------------------------------
(* Properties of the build.                                                *)

Checked == bpc = "checked"

Accepted == diags = {}

Shipped244 == [Shipped EXCEPT !.TMR_TOP = 244]

\* C1: the #if block issues the factorization diagnostic for exactly the
\* configurations with F_OSC # PS_FUSE * PS_TMR * TMR_TOP * ISR_CNT, so every
\* configuration it accepts satisfies the identity; the shipped configuration
\* is accepted and the shipped one with TMR_TOP = 244 is rejected with the
\* factorization diagnostic.
FactorizationEnforced ==
    Checked =>
        /\ (DiagFactor \in diags) <=>
              (cfg.F_OSC # cfg.PS_FUSE * cfg.PS_TMR * cfg.TMR_TOP * cfg.ISR_CNT)
        /\ Accepted =>
              cfg.F_OSC = cfg.PS_FUSE * cfg.PS_TMR * cfg.TMR_TOP * cfg.ISR_CNT
        /\ cfg = Shipped => Accepted
        /\ cfg = Shipped244 => DiagFactor \in diags

\* C1 witness: the shipped configuration with TMR_TOP = 244 has been
\* rejected with the factorization diagnostic.
FactorizationRejected244 ==
    Checked /\ cfg = Shipped244 /\ DiagFactor \in diags

\* C4: every example of the header's table (lines 55-80), taken as a
\* configuration, satisfies the identity with TMR_TOP <= 255 and
\* ISR_CNT <= 65535 and passes the #if block.
ExamplesPassValidator ==
    (Checked /\ cfg \in ExampleConfigs) =>
        /\ cfg.F_OSC = cfg.PS_FUSE * cfg.PS_TMR * cfg.TMR_TOP * cfg.ISR_CNT
        /\ cfg.TMR_TOP <= 255
        /\ cfg.ISR_CNT <= 65535
        /\ Accepted

\* C5: a configuration with PPS_DC <= 0 or PPS_DC >= ISR_CNT is rejected
\* with the duty diagnostic.
DutyRangeRejected ==
    (Checked /\ (cfg.PPS_DC <= 0 \/ cfg.PPS_DC >= cfg.ISR_CNT)) =>
        DiagDuty \in diags

IsrCntRangeRejected ==
    (Checked /\ (cfg.ISR_CNT < 1 \/ cfg.ISR_CNT > 65535)) => ~Accepted

\* C8: PS_TMR passes the prescaler check exactly when it is 1, 8, 64, 256 or
\* 1024, PPS_PS then being the matching selector; any other value draws the
\* "Invalid PS_TMR settings!" diagnostic and selects nothing.
PrescalerCheckExact ==
    Checked =>
        /\ (cfg.PS_TMR \in {1, 8, 64, 256, 1024}) <=>
              (DiagPsTmr \notin diags /\ DiagElif \notin diags)
        /\ cfg.PS_TMR = 1 => pps_ps = TMR0_PS1x
        /\ cfg.PS_TMR = 8 => pps_ps = TMR0_PS8x
        /\ cfg.PS_TMR = 64 => pps_ps = TMR0_PS64x
        /\ cfg.PS_TMR = 256 => pps_ps = TMR0_PS256x
        /\ cfg.PS_TMR = 1024 => pps_ps = TMR0_PS1024x
        /\ cfg.PS_TMR \notin {1, 8, 64, 256, 1024} =>
              (DiagPsTmr \in diags /\ pps_ps = PS_UNDEFINED)

---------------------------------------------------------------------------
(* Properties of the run.                                                  *)

Running == bpc = "run"

\* pps_out has been invoked since pps_init.
HandlerRan == since > 0 \/ rose

\* C2: counting pps_out invocations from pps_init or from the last
\* invocation that drove the pin high, fewer than the repeat count have
\* passed without a drive; the distance between two successive drives, and
\* from pps_init to the first, is exactly the repeat count; the driving
\* invocation leaves cnt at its initial value and the pin high.
HandlerPeriod ==
    Running =>
        /\ since < RepeatCount
        /\ gap # 0 => gap = RepeatCount
        /\ (rose /\ since = 0) => cnt = CntInit
        /\ (rose /\ falls = 0) => pin = 1

\* C2 witness: the shipped down-counter program has driven the pin high a
\* second time, 1250 invocations after the first.
SecondDriveShipped ==
    /\ Running
    /\ variant = "down"
    /\ cfg = Shipped
    /\ prevFalls # -1
    /\ since = 0
    /\ gap = 1250

DutyInRange == 0 < DutyCount /\ DutyCount < RepeatCount

\* C3: with 0 < duty count < repeat count, a cycle has at most one falling
\* edge, the falling edge comes when the duty count of invocations has
\* passed since the drive or at most one invocation later, and every cycle
\* that began with a drive had exactly one falling edge.
DutyWindow ==
    (Running /\ DutyInRange) =>
        /\ falls <= 1
        /\ falls >= 1 => fallAt \in {DutyCount, DutyCount + 1}
        /\ prevFalls # -1 => prevFalls = 1

\* The order of the start-up steps of main.
StartupOrder(v) ==
    IF v = "down"
    THEN <<"mcu_init", "cnt", "pin_low", "pin_output", "prescaler", "reload",
           "handler", "return", "ei">>
    ELSE <<"mcu_init", "pin_low", "pin_output", "prescaler", "reload",
           "handler", "return", "ei">>

IsPrefix(a, b) == Len(a) <= Len(b) /\ a = SubSeq(b, 1, Len(a))

\* C9: pps_out is not invoked before pps_init has returned and ei has run;
\* interrupts stay disabled until ei; the start-up steps run in the order
\* mcu_init, pps_init (counter reset in the down-counter program, pin low,
\* pin output, prescaler, reload, handler), ei; ei runs once and the polling
\* loop is entered after it, with the peripheral fully programmed.
StartupBeforeHandler ==
    Running =>
        /\ HandlerRan => InLoop
        /\ ~InLoop => ~ie
        /\ IsPrefix(hist, StartupOrder(variant))
        /\ eiCount <= 1
        /\ InLoop <=> eiCount = 1
        /\ InLoop =>
              /\ hist = StartupOrder(variant)
              /\ ie
              /\ ddr = 1
              /\ isr = "pps_out"
              /\ tmr_ps = Masked(pps_ps)
              /\ tmr_pr = ReloadOf(variant, cfg, tmr_ps, 0)
        /\ pc = "ei" => (cnt = CntInit /\ pin = 0)

\* C9 witness: the down-counter program is in its polling loop and the
\* handler has driven the pin.
HandlerRanInLoop ==
    Running /\ variant = "down" /\ InLoop /\ rose /\ eiCount = 1

\* C10: after a re-run of pps_init, when ei is reached the counter is at its
\* starting value and the pin is low, and the waveform is that of the first
\* start: drives exactly the repeat count of invocations apart, the first
\* one counted from the restart, each followed by one falling edge after the
\* duty window.
RestartReproducesStart ==
    (Running /\ restarts > 0) =>
        /\ pc = "ei" => (cnt = CntInit /\ pin = 0)
        /\ gap # 0 => gap = RepeatCount
        /\ DutyInRange =>
              /\ falls >= 1 => fallAt \in {DutyCount, DutyCount + 1}
              /\ prevFalls # -1 => prevFalls = 1

\* C11: with the two-byte read of cnt and the gap between the comparison
\* and IO_CLR open to pps_out, a high-to-low transition of the pin comes
\* only when at least the duty count of invocations has passed since the
\* drive that began the pulse.
NoEarlyFall ==
    (Running /\ rose /\ falls >= 1) => fallAt >= DutyCount

---------------------------------------------------------------------------
(* The two programs side by side.                                          *)

\* The byte of a 16-bit value that is read first, and the value assembled
\* from the byte r read earlier and the other byte of c read now.
FirstByte(o, c) == IF o = "lo_first" THEN Lo(c) ELSE Hi(c)

AssembledOf(o, c, r) ==
    IF o = "lo_first" THEN Hi(c) * TwoPow8 + r ELSE r * TwoPow8 + Lo(c)

\* Repeat counts the pair is run with: the small ones, two whose tenth is
\* not 0, and two that need both bytes of cnt (1215 is the shipped PPS_CNT).
PairCounts == (1..MaxCnt) \cup {10, 20, 285, 1215}

\* The down-counter configuration with the repeat count n and the duty
\* count the up-counter program derives from n (line 225).
PairDown(n) == DownCfg(n, PPS_DLY(UpCfg(n)))

\* A 16.384 MHz oscillator (one of the frequencies of lines 55-80) with
\* TMR_TOP = 100: both programs count 2560 interrupts to the second, with a
\* duty count of 256.
PairDown16M == Config(16384000, 8, 8, 100, 2560, 256)
PairUp16M == Config(16384000, 1, 64, 100, 0, 0)

\* <<down-counter configuration, up-counter configuration>> with the same
\* repeat count and the same duty count.
Pairs ==
    {<<PairDown(n), UpCfg(n)>> : n \in PairCounts}
    \cup {<<PairDown16M, PairUp16M>>}

\* The up-counter program at entry to its main: cnt as initialized by line
\* 235.  hit / dhit: the last comparison of the up- / down-counter program
\* succeeded; torn: pps_out has run between the two byte reads of a poll.
PeerOf(c) ==
    [on |-> TRUE, cfg |-> c, cnt |-> CntInitOf("up", c),
     pin |-> 0, rd |-> 0, hit |-> FALSE, dhit |-> FALSE, torn |-> FALSE]

InitPair ==
    /\ variant = "down"
    /\ \E p \in Pairs : cfg = p[1] /\ peer = PeerOf(p[2])
    /\ Diagnostics(cfg) = {}
    /\ order \in {"lo_first", "hi_first"}
    /\ bpc = "run"
    /\ diags = {}
    /\ pps_ps = PPS_PS_of(cfg)
    /\ cnt = CntInit
    /\ PowerOn

\* Lines 191-193 and 281-283: mcu_init, pps_init and ei of both programs.
\* Interrupts are disabled until ei, so no handler invocation falls within.
pair_start ==
    /\ bpc = "run"
    /\ peer.on
    /\ pc = "mcu_init"
    /\ cnt' = cfg.ISR_CNT % TwoPow16
    /\ pin' = 0
    /\ ddr' = 1
    /\ tmr_ps' = Masked(pps_ps)
    /\ tmr_pr' = ReloadOf("down", cfg, Masked(pps_ps), tmr_pr)
    /\ isr' = "pps_out"
    /\ ie' = TRUE
    /\ eiCount' = eiCount + 1
    /\ hist' = StartupOrder("down")
    /\ peer' = [peer EXCEPT !.pin = 0]
    /\ pc' = "rd1"
    /\ UNCHANGED <<buildVars, seen, bpc, diags, pps_ps, rd, since, gap, rose,
                   falls, fallAt, prevFalls, polled, dirty, restarts>>

\* One timer interrupt: pps_out of lines 153-161 and pps_out of lines
\* 238-246, each on its own cnt and pin, at the rate of pps_out_timed.
pair_pps_out ==
    /\ bpc = "run"
    /\ peer.on
    /\ ie
    /\ isr = "pps_out"
    /\ tmr_ps # 0
    /\ InLoop => polled
    /\ LET d == pps_out_down(cfg, cnt)
           u == pps_out_up(peer.cfg, peer.cnt)
       IN  /\ cnt' = d.cnt
           /\ pin' = (IF d.set THEN 1 ELSE pin)
           /\ rose' = (d.set \/ rose)
           /\ peer' = [peer EXCEPT !.cnt = u.cnt,
                                   !.pin = (IF u.set THEN 1 ELSE peer.pin),
                                   !.torn = (peer.torn \/ pc = "rd2")]
    /\ polled' = FALSE
    /\ dirty' = (pc \in {"rd2", "clr"})
    /\ UNCHANGED <<buildVars, seen, bpc, diags, pps_ps, pc, ddr, ie, isr,
                   tmr_ps, tmr_pr, rd, hist, eiCount, since, gap, falls, fallAt,
                   prevFalls, restarts>>

\* Lines 196 and 286: the first byte of each program's read of its cnt.
pair_read1 ==
    /\ bpc = "run"
    /\ peer.on
    /\ pc = "rd1"
    /\ rd' = FirstByte(order, cnt)
    /\ peer' = [peer EXCEPT !.rd = FirstByte(order, peer.cnt)]
    /\ pc' = "rd2"
    /\ UNCHANGED <<buildVars, seen, bpc, diags, pps_ps, cnt, pin, ddr, ie, isr,
                   tmr_ps, tmr_pr, hist, eiCount, since, gap, rose, falls,
                   fallAt, prevFalls, polled, dirty, restarts>>

\* Lines 196 and 286: the second byte, and each program's comparison with
\* its threshold.
pair_read2 ==
    /\ bpc = "run"
    /\ peer.on
    /\ pc = "rd2"
    /\ LET dhit == AssembledOf(order, cnt, rd) = Threshold
           hit == AssembledOf(order, peer.cnt, peer.rd) = PPS_DLY(peer.cfg)
       IN  /\ peer' = [peer EXCEPT !.hit = hit, !.dhit = dhit]
           /\ seen' = [val |-> AssembledOf(order, cnt, rd), torn |-> dirty]
           /\ IF dhit \/ hit
                THEN /\ pc' = "clr"
                     /\ UNCHANGED <<polled, dirty>>
                ELSE /\ pc' = "rd1"
                     /\ polled' = (polled \/ ~dirty)
                     /\ dirty' = FALSE
    /\ UNCHANGED <<buildVars, bpc, diags, pps_ps, cnt, pin, ddr, ie, isr,
                   tmr_ps, tmr_pr, rd, hist, eiCount, since, gap, rose, falls,
                   fallAt, prevFalls, restarts>>

\* Lines 196 and 286: IO_CLR in each program whose comparison succeeded.
pair_clr ==
    /\ bpc = "run"
    /\ peer.on
    /\ pc = "clr"
    /\ pin' = (IF peer.dhit THEN 0 ELSE pin)
    /\ peer' = [peer EXCEPT !.pin = (IF peer.hit THEN 0 ELSE peer.pin)]
    /\ pc' = "rd1"
    /\ polled' = (polled \/ ~dirty)
    /\ dirty' = FALSE
    /\ UNCHANGED <<buildVars, seen, bpc, diags, pps_ps, cnt, ddr, ie, isr,
                   tmr_ps, tmr_pr, rd, hist, eiCount, since, gap, rose, falls,
                   fallAt, prevFalls, restarts>>

NextPair ==
    \/ pair_start
    \/ pair_pps_out
    \/ pair_read1
    \/ pair_read2
    \/ pair_clr

\* Both programs on the same interrupts and polls.
SpecPair == InitPair /\ [][NextPair]_vars

\* up = (N - down) mod N.
PairCountersRelated ==
    /\ PPS_CNT(peer.cfg) = cfg.ISR_CNT
    /\ PPS_DLY(peer.cfg) = cfg.PPS_DC
    /\ peer.cnt = (cfg.ISR_CNT - cnt) % cfg.ISR_CNT

---------------------------------------------------------------------------
(* Writers of the counter and of the pin.                                  *)

\* A step of main moves pc; pps_out returns to the statement it
\* interrupted.
MainStep == pc' # pc

DisjointStep ==
    (Running /\ ie /\ ie') =>
        /\ ~MainStep => (pin' = pin \/ pin' = 1)
        /\ cnt' # cnt => ~MainStep
        /\ MainStep =>
              /\ cnt' = cnt
              /\ pin' = pin \/ pin' = 0
              /\ pc # "clr" => pin' = pin
              /\ pc = "clr" => seen.val = Threshold

\* C13: once interrupts are enabled, a step of pps_out leaves the pin as it
\* was or high, and no other step changes cnt; a step of main leaves cnt as
\* it was and the pin as it was or low, and writes the pin only at the
\* IO_CLR of an iteration whose read of cnt equalled the threshold.
DisjointWriters == [][DisjointStep]_vars

\* C13 witness: in the shipped down-counter program pps_out has driven the
\* pin high and main, having read cnt equal to the threshold, has just
\* driven it low.
WritersBothActed ==
    /\ Running
    /\ variant = "down"
    /\ cfg = Shipped
    /\ rose
    /\ pc = "rd1"
    /\ seen.val = Threshold
    /\ pin = 0
    /\ falls = 1
    /\ fallAt = since

---------------------------------------------------------------------------
(* The end of the pulse.                                                   *)

\* The pin is low once more than the duty count of invocations has passed
\* since the drive, and every cycle that began with a drive had a falling
\* edge.
PulseEnds ==
    /\ (rose /\ since > DutyCount) => pin = 0
    /\ prevFalls # -1 => prevFalls >= 1

---------------------------------------------------------------------------
(* Progress.                                                               *)

\* The program under the timing of pps_out_timed, the timer interrupt
\* recurring for ever (the timer is free-running once tmr0_init has clocked
\* it) and main executing whenever no handler runs (while(1) of lines 194
\* and 284).
SpecLive ==
    /\ Init
    /\ [][Next]_vars
    /\ WF_vars(pps_out_timed)
    /\ WF_vars(Main)

---------------------------------------------------------------------------
(* Range of the counter.                                                   *)

\* 1..ISR_CNT for the down-counter, 0..PPS_CNT-1 for the up-counter.
InCounterRange(v) ==
    IF variant = "down" THEN 1 <= v /\ v <= cfg.ISR_CNT
    ELSE 0 <= v /\ v <= PPS_CNT(cfg) - 1

---------------------------------------------------------------------------
(* The reload of the up-counter program.                                   *)

\* The selectors the switch of lines 257-273 has a case for.
Selectors ==
    {TMR0_PS1x, TMR0_PS8x, TMR0_PS64x, TMR0_PS256x, TMR0_PS1024x}

\* Lines 220-223 as shipped.
ShippedUp == Config(19440000, 1, 64, 250, 0, 0)

\* A built program starts, the up-counter program having been built with
\* any of the selectors as PPS_PS (line 221: "8x is also a good choice").
InitReload ==
    /\ variant \in {"down", "up"}
    /\ cfg \in (IF variant = "down" THEN SmallDownConfigs
                ELSE SmallUpConfigs \cup {ShippedUp})
    /\ variant = "down" => Diagnostics(cfg) = {}
    /\ order \in {"lo_first", "hi_first"}
    /\ bpc = "run"
    /\ diags = {}
    /\ pps_ps \in (IF variant = "down" THEN {PPS_PS_of(cfg)} ELSE Selectors)
    /\ cnt = CntInit
    /\ peer = NoPeer
    /\ PowerOn

SpecReload == InitReload /\ [][Next]_vars

\* pps_init has programmed the period.
ReloadProgrammed ==
    pc \notin {"mcu_init", "p_cnt", "p_clr", "p_out", "p_tmr", "p_setpr"}

\* C17: in the up-counter program, for each of the five selectors, the
\* period pps_init programs is between 32 and 256 and prescaler * period *
\* PPS_CNT is F_CLK exactly; with the shipped constants and the shipped
\* selector the period is TMR_TOP.
ReloadExact ==
    (Running /\ variant = "up" /\ ReloadProgrammed) =>
        /\ tmr_ps \in Selectors
        /\ 32 <= tmr_pr /\ tmr_pr <= 256
        /\ Divider(tmr_ps) * tmr_pr * PPS_CNT(cfg) = cfg.F_OSC
        /\ (cfg = ShippedUp /\ tmr_ps = TMR0_PS64x) => tmr_pr = cfg.TMR_TOP

====
